---- MODULE Spec2Model ----
(***************************************************************************)
(* Model of the Hono/Electron IPC pattern documented in this repository:   *)
(*   - the renderer side: createEventSubscription (one IPC listener shared *)
(*     by many subscribers), debounce, and the stream atom's onMount;      *)
(*   - the main-process side: a CQRS service (EventServiceImpl) whose      *)
(*     Queries are concat(from(fetch), #notify.pipe(distinctUntilChanged,  *)
(*     mergeMap(fetch))) and whose Commands are ResultAsync chains.        *)
(*   - route handlers reading a Query (firstValueFromResult), one RPC call *)
(*     end to end, useOptimisticValue, the generated service template,     *)
(*     and the hybrid cache with its write atoms.                          *)
(* Each specification (SpecMux, SpecAtom, SpecService, SpecRead, SpecRpc,  *)
(* SpecOptimistic, SpecTemplate, SpecHybrid, SpecWrites) steps one side    *)
(* and leaves the other sides' variables unchanged.                        *)
(***************************************************************************)
EXTENDS Integers, Sequences, FiniteSets, Bags, TLC

(***************************************************************************)
(* Bounds of the model.                                                    *)
(***************************************************************************)
MaxHandles == 2      \* subscribe() calls by components on one event source
MaxCalls == 2        \* invocations of one unsubscribe handle
MaxMounts == 1       \* mounts of the stream atom (one debounce closure each)
MaxVer == 2          \* server-side mutations seen by the renderer
MaxRpc == 1          \* RPC calls of the stream atom in flight at once
MaxCmds == 1         \* Commands run against the service
MaxSubs == 1         \* subscriptions to the Query
MaxClock == 1        \* Date.now() readings after the one at construction
MaxInflight == 2     \* overlapping fetches inside one Query subscription
MaxReads == 2        \* firstValueFromResult calls
MaxWait == 3         \* half timeouts a call without a timer is followed for
MaxHeaders == 2      \* header pairs a caller supplies with one request
MaxNow == 3          \* milliseconds the renderer's Date.now() advances by
MaxUpdates == 2      \* onUpdate calls in flight at once
MaxEntities == 3     \* ids an entity of the generated service can have
MaxUsers == 1        \* users the table can hold

(***************************************************************************)
(* Program constants.                                                      *)
(***************************************************************************)
DebounceDelay == 300
DEFAULT_TIMEOUT_MS == 5000

VARIABLES
    \* ---- renderer: createEventSubscription(eventName) ----
    subscriptions,   \* the Set of callbacks, in insertion order
    root,            \* cleanup functions returned by ipcRenderer.on
    ipcListeners,    \* listeners registered on ipcRenderer for eventName
    handles,         \* unsubscribe closures handed out: [cb, calls]
    lastOp,          \* the handle called last (0 after a subscribe), and whether
                     \* the call before it was of the same handle
    lastFanout,      \* the last broadcast: how many callbacks were attached,
                     \* and which of them were not invoked
    \* ---- renderer: stream atom + debounce ----
    mounted,         \* 0, or the number of the live onMount closure
    mountCount,      \* onMount runs so far
    atomHandle,      \* the unsubscribe handle onMount returned to Jotai
    streamValue,     \* the atom's value: -1 is undefined, else a version
    timers,          \* pending setTimeout timers: [id, owner, left]
    timeoutId,       \* per debounce closure: its timeoutId (0 is undefined)
    fetches,         \* RPC calls started by handleUpdate and not finished
    deb,             \* per closure, about the calls of its debounced function:
                     \*   n: calls in the latest run (a run is ended by a
                     \*   timer running), owed: runs begun minus RPC calls
                     \*   started, since: ms since the last call, split: a
                     \*   timer ran between two calls less than the delay
                     \*   apart, lastVer: the newest version a signal announced
    serverVer,       \* the state the RPC handler would return
    ipcQueue,        \* push events sent by the main process, not delivered
    \* ---- main process: the CQRS service ----
    db,              \* the events table: [active, count, hidden, writes]
    notifyTok,       \* the value of #notify, a BehaviorSubject(Date.now())
    snapshots,       \* number of snapshots published on #notifier
    clock,           \* Date.now() in the main process
    cmd,             \* the Command in flight
    lastCmd,         \* the Command that returned last: result, kind, step, okVer
    subs,            \* subscriptions to the Query active()
    \* ---- main process: route handlers reading a Query ----
    read,            \* the firstValueFromResult call in progress
    finished,        \* the calls that have settled: how, when and with what
    chain,           \* the source of concat the call in progress is subscribed to
    observers,       \* observers that route handlers' calls have on #notify
    \* ---- one RPC call: renderer client -> IPC -> router -> IPC -> client ----
    onError,         \* whether the app was built with the central app.onError
    rpc,             \* the call in progress, step by step
    \* ---- renderer: one component using useOptimisticValue ----
    now,             \* Date.now() in the renderer
    realValue,       \* the realValue argument of the last render
    real,            \* the memoised { ts, value } of realValue
    optimistic,      \* the optimistic { ts, value } state
    value,           \* the value the last render returned
    updates,         \* the onUpdate calls in flight, by value
    lastSettled,     \* the onUpdate call that settled last, and how
    \* ---- main process: a service generated from the new-service template ----
    rows,            \* the ids of the rows of the entities table
    invocation,      \* the Command call in progress, and how it came back
    \* ---- renderer: the hybrid cache (stream atom + single-fetch atom) ----
    hybridAtom,      \* which hybrid read atom the component reads
    table,           \* the rows GET /users would return now
    stream,          \* the stream atom: undefined, or { value }
    single,          \* the atomWithRefresh atom: its promise, if it has one
    refetch,         \* the GET of the stream atom's update handler in flight
    lastRead,        \* what the last read of the hybrid atom returned
    refreshed,       \* a manual refresh ran and nothing was read since
    writing          \* the write atom in flight

rvars == <<subscriptions, root, ipcListeners, handles, lastOp, lastFanout,
           mounted, mountCount, atomHandle, streamValue, timers, timeoutId,
           fetches, deb, serverVer, ipcQueue>>
svars == <<db, notifyTok, snapshots, clock, cmd, lastCmd, subs>>
hvars == <<read, finished, chain, observers>>
pvars == <<onError, rpc>>
ovars == <<now, realValue, real, optimistic, value, updates, lastSettled>>
cvars == <<rows, invocation>>
yvars == <<hybridAtom, table, stream, single, refetch, lastRead, refreshed, writing>>
vars == <<rvars, svars, hvars, pvars, ovars, cvars, yvars>>

(***************************************************************************)
(* Sequence helpers.                                                       *)
(***************************************************************************)
Range(s) == {s[i] : i \in DOMAIN s}

RemoveAt(s, i) == SubSeq(s, 1, i - 1) \o SubSeq(s, i + 1, Len(s))

Without(s, x) == SelectSeq(s, LAMBDA y : y # x)

(***************************************************************************)
(* Callbacks.  A plain callback is any function a component passes to      *)
(* subscribe; Handler(n) is the debounced handleUpdate closure created by  *)
(* the n-th run of onMount.                                                *)
(***************************************************************************)
PlainCallbacks == {<<"cb", 1>>, <<"cb", 2>>}

ThrowingCallbacks == {<<"cb", 2>>}

Handler(n) == <<"handleUpdate", n>>

Closures == 1..MaxMounts

IsHandler(cb) == cb[1] = "handleUpdate"

(***************************************************************************)
(* createEventSubscription.subscribe                                       *)
(***************************************************************************)
\* an add that puts the new element first
SetAddFront(s, cb) == IF cb \in Range(s) THEN s ELSE <<cb>> \o s

\* Set.prototype.add: an element already present keeps its place.
SetAdd(s, cb) == IF cb \in Range(s) THEN s ELSE Append(s, cb)

\* Set.prototype.delete
SetDeleteAny(s, cb) == IF cb \in Range(s) THEN Without(s, cb) ELSE IF s = <<>> THEN s ELSE Tail(s)

SetDelete(s, cb) == Without(s, cb)

\* window.electron.ipcRenderer.on: a new listener, identified by the
\* smallest number not in use.
FreshListener == CHOOSE i \in 1..(Cardinality(ipcListeners) + 1) :
                    /\ i \notin ipcListeners
                    /\ \A j \in 1..(i - 1) : j \in ipcListeners

\* `if (subscriptions.size < 1)` guarding root.push(ipcRenderer.on(...))
RegisterAlways(s) == TRUE

MustRegister(s) == Len(s) < 1

\* `if (subscriptions.size < 1)` guarding the cleanup loop
MustRelease(s) == Len(s) < 1

SubscribeCore(cb) ==
    /\ IF MustRegister(subscriptions)
          THEN /\ ipcListeners' = ipcListeners \cup {FreshListener}
               /\ root' = Append(root, FreshListener)
          ELSE UNCHANGED <<ipcListeners, root>>
    /\ subscriptions' = SetAdd(subscriptions, cb)
    /\ handles' = Append(handles, [cb |-> cb, calls |-> 0])
    /\ lastOp' = [h |-> 0, rep |-> FALSE]

UnsubscribeCore(h) ==
    /\ h \in DOMAIN handles
    /\ handles[h].calls < MaxCalls
    /\ subscriptions' = SetDelete(subscriptions, handles[h].cb)
    /\ IF MustRelease(subscriptions')
          THEN /\ ipcListeners' = ipcListeners \ Range(root)
               /\ root' = <<>>
          ELSE UNCHANGED <<ipcListeners, root>>
    /\ handles' = [handles EXCEPT ![h].calls = @ + 1]
    /\ lastOp' = [h |-> h, rep |-> lastOp.h = h]

(***************************************************************************)
(* debounce(fn, delay)                                                     *)
(***************************************************************************)
ClearTimeoutNoop(ts, id) == ts

\* clearTimeout(timeoutId), under `if (timeoutId !== undefined)`
ClearTimeout(ts, id) == {t \in ts : t.id # id}

\* setTimeout(..., delay): the time left before the timer may run
Arm(delay) == delay

\* the id setTimeout returns: one no pending timer has
FreshTimer(ts) == CHOOSE i \in 1..(Cardinality(ts) + 1) : \A t \in ts : t.id # i

\* One call of the debounced function of closure c, on the debounce state
\* st = [timers, timeoutId, deb]; sv is the version the signal announces
\* (the mount's own call announces none: -1).
DebouncedCall(st, c, sv) ==
    LET cleared == IF st.timeoutId[c] # 0
                      THEN ClearTimeout(st.timers, st.timeoutId[c])
                      ELSE st.timers
        id == FreshTimer(cleared)
    IN  [timers    |-> cleared \cup {[id |-> id, owner |-> c, left |-> Arm(DebounceDelay)]},
         timeoutId |-> [st.timeoutId EXCEPT ![c] = id],
         deb       |-> [st.deb EXCEPT ![c] =
                          [owed    |-> IF @.owed > 0 THEN @.owed ELSE 1,
                           n       |-> IF @.owed > 0 THEN @.n + 1 ELSE 1,
                           split   |-> @.split \/ (@.owed = 0 /\ @.n > 0
                                                    /\ @.since < DebounceDelay),
                           since   |-> 0,
                           lastVer |-> IF sv > @.lastVer THEN sv ELSE @.lastVer]]]

DebState == [timers |-> timers, timeoutId |-> timeoutId, deb |-> deb]

SetDebState(st) ==
    /\ timers' = st.timers
    /\ timeoutId' = st.timeoutId
    /\ deb' = st.deb

(***************************************************************************)
(* The broadcast loop `for (const cb of subscriptions) cb(value)`          *)
(***************************************************************************)
RECURSIVE FirstThrowing(_, _)
FirstThrowing(s, i) ==
    IF i > Len(s) THEN 0
    ELSE IF s[i] \in ThrowingCallbacks THEN i
    ELSE FirstThrowing(s, i + 1)

\* The callbacks the loop calls: it has no try/catch, so a callback that
\* throws ends the loop.
BroadcastInvoked(s) ==
    IF FirstThrowing(s, 1) = 0 THEN s ELSE SubSeq(s, 1, FirstThrowing(s, 1))

RECURSIVE CallAll(_, _, _)
CallAll(st, s, sv) ==
    IF s = <<>> THEN st
    ELSE CallAll(IF IsHandler(Head(s)) THEN DebouncedCall(st, Head(s)[2], sv) ELSE st,
                 Tail(s), sv)

RECURSIVE Repeat(_, _)
Repeat(s, n) == IF n = 0 THEN <<>> ELSE s \o Repeat(s, n - 1)

(***************************************************************************)
(* Renderer actions                                                        *)
(***************************************************************************)
Subscribe(cb) ==
    /\ Cardinality({h \in DOMAIN handles : ~IsHandler(handles[h].cb)}) < MaxHandles
    /\ SubscribeCore(cb)
    /\ UNCHANGED <<lastFanout, mounted, mountCount, atomHandle, streamValue,
                   timers, timeoutId, fetches, deb, serverVer,
                   ipcQueue>>
    /\ UNCHANGED <<svars, hvars, pvars, ovars, cvars, yvars>>

\* a component calls an unsubscribe handle it holds
Unsubscribe(h) ==
    /\ h \in DOMAIN handles
    /\ ~IsHandler(handles[h].cb)
    /\ UnsubscribeCore(h)
    /\ UNCHANGED <<lastFanout, mounted, mountCount, atomHandle, streamValue,
                   timers, timeoutId, fetches, deb, serverVer,
                   ipcQueue>>
    /\ UNCHANGED <<svars, hvars, pvars, ovars, cvars, yvars>>

\* streamAtom.onMount: a new debounced handleUpdate, called once, then
\* subscribed to the event source.
Mount ==
    /\ mounted = 0
    /\ mountCount < MaxMounts
    /\ LET c == mountCount + 1
       IN  /\ SetDebState(DebouncedCall(DebState, c, -1))
           /\ SubscribeCore(Handler(c))
           /\ mounted' = c
           /\ mountCount' = c
           /\ atomHandle' = Len(handles) + 1
    /\ UNCHANGED <<lastFanout, streamValue, fetches, serverVer, ipcQueue>>
    /\ UNCHANGED <<svars, hvars, pvars, ovars, cvars, yvars>>

\* Jotai calls what onMount returned: the event source's unsubscribe.
Unmount ==
    /\ mounted # 0
    /\ UnsubscribeCore(atomHandle)
    /\ mounted' = 0
    /\ UNCHANGED <<lastFanout, mountCount, atomHandle, streamValue, timers,
                   timeoutId, fetches, deb, serverVer, ipcQueue>>
    /\ UNCHANGED <<svars, hvars, pvars, ovars, cvars, yvars>>

\* the main process changes the data and pushes an event
ServerChange ==
    /\ serverVer < MaxVer
    /\ serverVer' = serverVer + 1
    /\ ipcQueue' = Append(ipcQueue, serverVer + 1)
    /\ UNCHANGED <<subscriptions, root, ipcListeners, handles, lastOp,
                   lastFanout, mounted, mountCount, atomHandle, streamValue,
                   timers, timeoutId, fetches, deb>>
    /\ UNCHANGED <<svars, hvars, pvars, ovars, cvars, yvars>>

\* ipcRenderer delivers a push event to every registered listener; each
\* listener runs the broadcast loop.
IpcEvent ==
    /\ ipcQueue # <<>>
    /\ ipcQueue' = Tail(ipcQueue)
    /\ IF ipcListeners = {}
          THEN UNCHANGED <<lastFanout, timers, timeoutId, deb>>
          ELSE LET invoked == BroadcastInvoked(subscriptions)
               IN  /\ lastFanout' = [n |-> Len(subscriptions), order |-> invoked,
                                     missed |-> Range(subscriptions) \ Range(invoked)]
                   /\ SetDebState(CallAll(DebState,
                                          Repeat(invoked, Cardinality(ipcListeners)),
                                          Head(ipcQueue)))
    /\ UNCHANGED <<subscriptions, root, ipcListeners, handles, lastOp, mounted,
                   mountCount, atomHandle, streamValue, fetches, serverVer>>
    /\ UNCHANGED <<svars, hvars, pvars, ovars, cvars, yvars>>

\* half a debounce delay passes in the renderer
Tick ==
    /\ \/ \E t \in timers : t.left > 0
       \/ \E c \in Closures : deb[c].n > 0 /\ deb[c].since < DebounceDelay
    /\ timers' = {[t EXCEPT !.left = IF @ > 150 THEN @ - 150 ELSE 0] : t \in timers}
    /\ deb' = [c \in Closures |->
                 [deb[c] EXCEPT !.since = IF @ + 150 < DebounceDelay THEN @ + 150
                                          ELSE DebounceDelay]]
    /\ UNCHANGED <<subscriptions, root, ipcListeners, handles, lastOp,
                   lastFanout, mounted, mountCount, atomHandle, streamValue,
                   timeoutId, fetches, serverVer, ipcQueue>>
    /\ UNCHANGED <<svars, hvars, pvars, ovars, cvars, yvars>>

\* a setTimeout callback runs: fn(...args) starts the RPC call, then
\* timeoutId = undefined.
TimerFire(t) ==
    /\ t \in timers
    /\ t.left = 0
    /\ Len(fetches) < MaxRpc
    /\ timers' = timers \ {t}
    /\ timeoutId' = [timeoutId EXCEPT ![t.owner] = 0]
    /\ fetches' = Append(fetches, [owner |-> t.owner, phase |-> "sent", ok |-> TRUE,
                                   val |-> -1,
                                   early |-> deb[t.owner].since < DebounceDelay,
                                   sigVer |-> deb[t.owner].lastVer,
                                   live |-> mounted = t.owner])
    /\ deb' = [deb EXCEPT ![t.owner].owed = @ - 1]
    /\ UNCHANGED <<subscriptions, root, ipcListeners, handles, lastOp,
                   lastFanout, mounted, mountCount, atomHandle, streamValue,
                   serverVer, ipcQueue>>
    /\ UNCHANGED <<svars, hvars, pvars, ovars, cvars, yvars>>

\* a read that returns what the table held at start-up
ServedStale(okay) == IF okay THEN serverVer - serverVer ELSE -1

\* what `client.users.$get()` reads in the main process
Served(okay) == IF okay THEN serverVer ELSE -1

\* the main process handles the RPC call
ServeFetch(i, okay) ==
    /\ i \in DOMAIN fetches
    /\ fetches[i].phase = "sent"
    /\ fetches' = [fetches EXCEPT ![i].phase = "served", ![i].ok = okay,
                                  ![i].val = Served(okay)]
    /\ UNCHANGED <<subscriptions, root, ipcListeners, handles, lastOp,
                   lastFanout, mounted, mountCount, atomHandle, streamValue,
                   timers, timeoutId, deb, serverVer, ipcQueue>>
    /\ UNCHANGED <<svars, hvars, pvars, ovars, cvars, yvars>>

OnResponseAlways(cur, f) == f.val

\* `if (res.ok) set({ value: await res.json() })`; a rejected call (transport
\* error, timeout) ends the handler before set, a 500 has res.ok false
OnResponse(cur, f) == IF f.ok THEN f.val ELSE cur

\* the response arrives
FetchDone(i) ==
    /\ i \in DOMAIN fetches
    /\ fetches[i].phase = "served"
    /\ streamValue' = OnResponse(streamValue, fetches[i])
    /\ fetches' = RemoveAt(fetches, i)
    /\ UNCHANGED <<subscriptions, root, ipcListeners, handles, lastOp,
                   lastFanout, mounted, mountCount, atomHandle, timers,
                   timeoutId, deb, serverVer, ipcQueue>>
    /\ UNCHANGED <<svars, hvars, pvars, ovars, cvars, yvars>>

(***************************************************************************)
(* EventServiceImpl: the store                                             *)
(***************************************************************************)
\* the ids of the rows the table holds and one id it does not hold
Ids == 1..(db.count + 1)

Kinds == {"create", "update", "close", "delete"}

\* create() is #closeExistingActive then #insertEvent; the others are one
\* store operation.
LastStep(kind) == IF kind = "create" THEN 2 ELSE 1

\* #closeExistingActive: UPDATE ... SET status = 'closed' WHERE status = 'active'
CloseExistingActive(d) ==
    IF d.active # 0 THEN [d EXCEPT !.active = 0, !.writes = @ + 1] ELSE d

\* #insertEvent: INSERT ... status 'active' RETURNING
InsertEvent(d) ==
    [d EXCEPT !.count = @ + 1, !.active = d.count + 1, !.writes = @ + 1]

\* #updateEvent: UPDATE ... SET updates WHERE id = id
UpdateEvent(d, id) == IF id <= d.count THEN [d EXCEPT !.writes = @ + 1] ELSE d

\* #closeEvent: UPDATE ... SET status = 'closed' WHERE id = id
CloseEvent(d, id) ==
    IF id <= d.count
       THEN [d EXCEPT !.active = IF @ = id THEN 0 ELSE @, !.writes = @ + 1]
       ELSE d

\* #hideEvent: UPDATE ... SET hidden = true WHERE id = id
HideEvent(d, id) ==
    IF id <= d.count
       THEN [d EXCEPT !.hidden = @ \cup {id}, !.writes = @ + 1]
       ELSE d

ApplyStep(d, kind, step, id) ==
    CASE kind = "create" /\ step = 1 -> CloseExistingActive(d)
      [] kind = "create" /\ step = 2 -> InsertEvent(d)
      [] kind = "update" -> UpdateEvent(d, id)
      [] kind = "close" -> CloseEvent(d, id)
      [] kind = "delete" -> HideEvent(d, id)

\* a read served from what the table held one write ago
ReadDbStale == IF db.writes > 0 THEN db.writes - 1 ELSE db.writes

\* #getActiveEvent: what a read of the table returns, named by the number
\* of writes the table had seen
ReadDb == db.writes

\* Date.now()
DateNow == clock

(***************************************************************************)
(* EventServiceImpl: Queries                                               *)
(*   concat(from(#getActiveEvent()),                                       *)
(*          #notify.pipe(distinctUntilChanged(), mergeMap(#getActiveEvent)))*)
(*     .pipe(mergeMap(result => result.match(of, throwError)))             *)
(***************************************************************************)
\* distinctUntilChanged(): a value passes unless it equals the one before
Passes(seen, tok) == seen # tok

NewFetch(kind) == [phase |-> "started", ver |-> -1, kind |-> kind]

Max(a, b) == IF a > b THEN a ELSE b

\* the subscriber's next() is called with the value fetch f read
Emit(sub, f) ==
    [sub EXCEPT !.n = @ + 1,
                !.first = IF sub.n = 0 THEN f.ver ELSE @,
                !.firstKind = IF sub.n = 0 THEN f.kind ELSE @,
                !.maxv = Max(@, f.ver)]

\* #notify.next(tok) reaches one subscription; cmdsAfter counts the
\* invalidations published since it was made
OnNotify(sub, tok) ==
    IF sub.st = "live" /\ Passes(sub.seen, tok)
       THEN [sub EXCEPT !.seen = tok,
                        !.inflight = @ (+) SetToBag({NewFetch("notify")}),
                        !.cmdsAfter = @ + 1]
       ELSE IF sub.st = "errored" THEN sub
       ELSE [sub EXCEPT !.cmdsAfter = @ + 1]

\* service.active().subscribe(...): the first fetch starts at once
QuerySubscribe ==
    /\ Len(subs) < MaxSubs
    /\ subs' = Append(subs, [st |-> "initial", seen |-> -1,
                             inflight |-> SetToBag({NewFetch("initial")}),
                             n |-> 0, first |-> -1, firstKind |-> "none",
                             maxv |-> -1, cmdsAfter |-> 0,
                             subVer |-> lastCmd.okVer])
    /\ UNCHANGED <<db, notifyTok, snapshots, clock, cmd, lastCmd>>
    /\ UNCHANGED <<rvars, hvars, pvars, ovars, cvars, yvars>>

\* the store answers fetch f of subscription i.  A rejection makes
\* #getActiveEvent resolve to an err Result, which result.match turns into
\* throwError: the subscription ends and its other fetches are dropped.
DbRead(i, f, okay) ==
    /\ f.phase = "started"
    /\ subs' = IF okay
                  THEN [subs EXCEPT ![i].inflight =
                           (@ (-) SetToBag({f})) (+)
                           SetToBag({[f EXCEPT !.phase = "read", !.ver = ReadDb]})]
                  ELSE [subs EXCEPT ![i].st = "errored", ![i].inflight = EmptyBag]
    /\ UNCHANGED <<db, notifyTok, snapshots, clock, cmd, lastCmd>>
    /\ UNCHANGED <<rvars, hvars, pvars, ovars, cvars, yvars>>

\* the promise of a fetch that read the table resolves.  When the first
\* fetch has emitted, concat subscribes to #notify, which replays its
\* current value.
Deliver(i, f) ==
    /\ f.phase = "read"
    /\ LET sub == subs[i]
       IN  subs' = [subs EXCEPT ![i] =
              IF sub.st = "initial"
                 THEN [Emit(sub, f) EXCEPT
                          !.st = "live",
                          !.seen = notifyTok,
                          !.inflight = IF Passes(sub.seen, notifyTok)
                                          THEN SetToBag({NewFetch("notify")})
                                          ELSE EmptyBag]
              ELSE [Emit(sub, f) EXCEPT !.inflight = @ (-) SetToBag({f})]]
    /\ UNCHANGED <<db, notifyTok, snapshots, clock, cmd, lastCmd>>
    /\ UNCHANGED <<rvars, hvars, pvars, ovars, cvars, yvars>>

(***************************************************************************)
(* EventServiceImpl: Commands                                              *)
(***************************************************************************)
NotifiesAlways(result) == TRUE

\* .andThen(...) runs its callback only on an Ok
NotifiesOn(result) == result = "ok"

\* The Command returns `result`, having left the table as d.  lastCmd
\* keeps what the caller saw: the result, the operation that produced it,
\* and the table version left by the latest Command that returned Ok.
Finish(result, d) ==
    LET pub == NotifiesOn(result)
    IN  /\ pub => \A i \in DOMAIN subs :
                      BagCardinality(subs[i].inflight) < MaxInflight
        /\ notifyTok' = IF pub THEN DateNow ELSE notifyTok
        /\ snapshots' = IF pub THEN snapshots + 1 ELSE snapshots
        /\ subs' = IF pub THEN [i \in DOMAIN subs |-> OnNotify(subs[i], DateNow)]
                          ELSE subs
        /\ lastCmd' = [result |-> result, kind |-> cmd.kind, step |-> cmd.step,
                       okVer |-> IF result = "ok" THEN d.writes ELSE lastCmd.okVer]
        /\ cmd' = [pc |-> "idle", n |-> cmd.n]

\* a caller invokes create / update / close / delete
StartCmd(kind, id) ==
    /\ cmd.pc = "idle"
    /\ cmd.n < MaxCmds
    /\ cmd' = [pc |-> "run", n |-> cmd.n + 1, kind |-> kind,
               id |-> IF kind = "create" THEN 0 ELSE id, step |-> 1,
               pre |-> [tok |-> notifyTok, snaps |-> snapshots, db |-> db]]
    /\ UNCHANGED <<db, notifyTok, snapshots, clock, lastCmd, subs>>
    /\ UNCHANGED <<rvars, hvars, pvars, ovars, cvars, yvars>>

\* a store operation of the Command succeeds
CmdStepOk ==
    /\ cmd.pc = "run"
    /\ db' = ApplyStep(db, cmd.kind, cmd.step, cmd.id)
    /\ cmd' = IF cmd.step = LastStep(cmd.kind)
                 THEN [cmd EXCEPT !.pc = "resolved"]
                 ELSE [cmd EXCEPT !.step = @ + 1]
    /\ UNCHANGED <<notifyTok, snapshots, clock, lastCmd, subs>>
    /\ UNCHANGED <<rvars, hvars, pvars, ovars, cvars, yvars>>

\* a store operation of the Command rejects: the chain ends with an Err
CmdStepFail ==
    /\ cmd.pc = "run"
    /\ Finish("err", db)
    /\ UNCHANGED <<db, clock>>
    /\ UNCHANGED <<rvars, hvars, pvars, ovars, cvars, yvars>>

\* the last andThen: #notify.next(Date.now()), #notifier.next(snapshot),
\* and the Command returns Ok
CmdNotify ==
    /\ cmd.pc = "resolved"
    /\ Finish("ok", db)
    /\ UNCHANGED <<db, clock>>
    /\ UNCHANGED <<rvars, hvars, pvars, ovars, cvars, yvars>>

\* a millisecond passes in the main process.  The clock is read only by
\* the Date.now() of a Command, and the tokens it gives are only compared
\* with one another: the time that passes while no Command runs, or past
\* the first millisecond after the current token, changes nothing.
ClockTick ==
    /\ clock < MaxClock
    /\ cmd.pc # "idle"
    /\ clock = notifyTok
    /\ clock' = clock + 1
    /\ UNCHANGED <<db, notifyTok, snapshots, cmd, lastCmd, subs>>
    /\ UNCHANGED <<rvars, hvars, pvars, ovars, cvars, yvars>>

(***************************************************************************)
(* firstValueFromResult(observable, options): the repository holds three   *)
(* versions of it.                                                         *)
(*   "typed": ERROR-HANDLING.md, QueryTimeoutError / QueryError classes    *)
(*   "plain": part_015, plain Error values                                 *)
(*   "bare":  ZOD-VALIDATION.md, firstValueFrom(observable) and no more    *)
(***************************************************************************)
Impls == {"typed", "plain", "bare"}

\* the options argument: absent, or { timeout: n }
OptionSets == {{}, {<<"timeout", DEFAULT_TIMEOUT_MS \div 2>>}}

\* options.timeout ?? DEFAULT_TIMEOUT_MS
TimeoutMs(options) ==
    IF \E o \in options : o[1] = "timeout"
       THEN (CHOOSE o \in options : o[1] = "timeout")[2]
       ELSE DEFAULT_TIMEOUT_MS

\* observable.pipe(timeout(timeoutMs)) is part of the typed and plain versions
HasTimeout(impl) == impl \in {"typed", "plain"}

\* the step of time the model follows a call by
HalfTimeout == DEFAULT_TIMEOUT_MS \div 2

\* what RxJS's timeout operator errors with
RxTimeoutError == [cls |-> "TimeoutError", isError |-> TRUE, msg |-> <<"Timeout has occurred">>]

\* what a Query may error with: an Error, RxJS's TimeoutError (a Query that
\* pipes through timeout() itself), or a thrown value that is not an Error
QueryErrors ==
    {[cls |-> "Error", isError |-> TRUE, msg |-> <<"boom">>],
     RxTimeoutError,
     [cls |-> "string", isError |-> FALSE, msg |-> <<"boom">>]}

\* `Query timed out after ${timeoutMs}ms`
TimedOutMessage(ms) == <<"Query timed out after", ms, "ms">>

\* the error mapper handed to ResultAsync.fromPromise; the bare version has
\* none and the promise rejects with e
MapError(impl, ms, e) ==
    CASE impl = "typed" ->
           IF e.cls = "TimeoutError"
              THEN [tag |-> "err", cls |-> "QueryTimeoutError", msg |-> TimedOutMessage(ms)]
              ELSE [tag |-> "err", cls |-> "QueryError", msg |-> e.msg]
      [] impl = "plain" ->
           IF e.cls = "TimeoutError"
              THEN [tag |-> "err", cls |-> "Error", msg |-> TimedOutMessage(ms)]
              ELSE IF e.isError THEN [tag |-> "err", cls |-> e.cls, msg |-> e.msg]
              ELSE [tag |-> "err", cls |-> "Error", msg |-> e.msg]
      [] impl = "bare" -> [tag |-> "rejected", cls |-> e.cls, msg |-> e.msg]

OkValue == [tag |-> "ok", cls |-> "value", msg |-> <<>>]

IdleRead(n) == [st |-> "idle", n |-> n, impl |-> "none", timeoutMs |-> 0, elapsed |-> 0]

\* a consumer that stays subscribed after the first value
KeepFirst(c) == c

\* firstValueFrom's next: resolve(value), then subscriber.unsubscribe()
TakeFirst(c) == "none"

\* from(promise) calls complete() after next(): concat subscribes to its
\* second source, #notify.pipe(...), unless the subscriber is closed by then
OnComplete(c) == IF c = "from" THEN "notify" ELSE c

\* the chain goes from being subscribed to c to being subscribed to d: the
\* observers of #notify after that
Observing(n, c, d) ==
    n - (IF c = "notify" THEN 1 ELSE 0) + (IF d = "notify" THEN 1 ELSE 0)

\* the chain of the call in progress becomes subscribed to d
Resubscribe(d) ==
    /\ chain' = d
    /\ observers' = Observing(observers, chain, d)

\* the call settles with `result`; cause is what made it settle
Settle(cause, result) ==
    /\ finished' = finished \cup {[impl |-> read.impl, timeoutMs |-> read.timeoutMs,
                                  cause |-> cause, at |-> read.elapsed,
                                  result |-> result]}
    /\ read' = IdleRead(read.n)

\* a route handler calls firstValueFromResult(query, options)
StartRead(impl, options) ==
    /\ read.st = "idle"
    /\ read.n < MaxReads
    /\ read' = [st |-> "pending", n |-> read.n + 1, impl |-> impl,
                timeoutMs |-> TimeoutMs(options), elapsed |-> 0]
    /\ chain' = "from"
    /\ UNCHANGED <<finished, observers>>
    /\ UNCHANGED <<rvars, svars, pvars, ovars, cvars, yvars>>

\* time passes with the Query silent; a due timeout timer runs before more
\* time passes
Advance ==
    /\ read.st = "pending"
    /\ read.elapsed < (IF HasTimeout(read.impl) THEN read.timeoutMs
                                                ELSE MaxWait * HalfTimeout)
    /\ read' = [read EXCEPT !.elapsed = @ + HalfTimeout]
    /\ UNCHANGED <<finished, chain, observers>>
    /\ UNCHANGED <<rvars, svars, pvars, ovars, cvars, yvars>>

\* the Query emits its first value: the promise of the first fetch
\* resolved, from() calls next and then complete
QueryEmits ==
    /\ read.st = "pending"
    /\ Settle("value", OkValue)
    /\ Resubscribe(OnComplete(TakeFirst(chain)))
    /\ UNCHANGED <<rvars, svars, pvars, ovars, cvars, yvars>>

\* the Query errors with e
QueryFails(e) ==
    /\ read.st = "pending"
    /\ Settle("queryError", MapError(read.impl, read.timeoutMs, e))
    /\ Resubscribe("none")
    /\ UNCHANGED <<rvars, svars, pvars, ovars, cvars, yvars>>

\* timeout(timeoutMs) errors with a TimeoutError
TimeoutFires ==
    /\ read.st = "pending"
    /\ HasTimeout(read.impl)
    /\ read.elapsed >= read.timeoutMs
    /\ Settle("timeout", MapError(read.impl, read.timeoutMs, RxTimeoutError))
    /\ Resubscribe("none")
    /\ UNCHANGED <<rvars, svars, pvars, ovars, cvars, yvars>>

(***************************************************************************)
(* The RPC client's custom fetch: serializeHeader and the argument list    *)
(* handed to ipcRenderer.invoke('hono-rpc-electron', ...).                 *)
(* A header pair is <<name, value>>; a value is the sequence of the        *)
(* strings that ", " joins, so that a combined value stays comparable.     *)
(***************************************************************************)
HeaderNames == {"A", "x-b", "1"}
HeaderValues == {<<"v1">>, <<"v2">>}
HeaderPairs == HeaderNames \X HeaderValues

PairLists == UNION {[1..n -> HeaderPairs] : n \in 0..MaxHeaders}

\* the property names of an object literal are distinct
DistinctNames(list) == \A i, j \in DOMAIN list : list[i][1] = list[j][1] => i = j

\* init.headers as the caller supplies it: undefined, a Headers object (its
\* header list, in the order of the appends), an array of pairs, or a plain
\* object (its properties, in the order they were written)
HeaderInputs ==
    {[form |-> "undefined", list |-> <<>>]}
      \cup {[form |-> "Headers", list |-> l] : l \in PairLists}
      \cup {[form |-> "array", list |-> l] : l \in PairLists}
      \cup {[form |-> "object", list |-> l] : l \in {m \in PairLists : DistinctNames(m)}}

\* Headers stores names byte-lower-cased
Lower(name) == IF name = "A" THEN "a" ELSE name

\* the names in code-unit order, which Headers iterates in
NameOrder == <<"1", "A", "a", "x-b">>
Rank(name) == CHOOSE i \in DOMAIN NameOrder : NameOrder[i] = name

\* array index keys ("1") come first among an object's own properties
IsIndexKey(name) == name = "1"

RECURSIVE Flatten(_)
Flatten(seqs) == IF seqs = <<>> THEN <<>> ELSE Head(seqs) \o Flatten(Tail(seqs))

\* the values appended under `name`, in the order of the appends
ValuesOf(list, name) ==
    Flatten([i \in DOMAIN SelectSeq(list, LAMBDA p : Lower(p[1]) = name) |->
                SelectSeq(list, LAMBDA p : Lower(p[1]) = name)[i][2]])

RECURSIVE SortNames(_)
SortNames(names) ==
    IF names = {} THEN <<>>
    ELSE LET first == CHOOSE n \in names : \A m \in names : Rank(n) <= Rank(m)
         IN <<first>> \o SortNames(names \ {first})

\* [...headers.entries()]: lower-cased names in sorted order, the values of
\* one name combined
HeadersEntries(list) ==
    LET names == SortNames({Lower(list[i][1]) : i \in DOMAIN list})
    IN [i \in DOMAIN names |-> <<names[i], ValuesOf(list, names[i])>>]

\* Object.entries(headers): index keys first, then the rest as written
ObjectEntries(list) ==
    SelectSeq(list, LAMBDA p : IsIndexKey(p[1]))
      \o SelectSeq(list, LAMBDA p : ~IsIndexKey(p[1]))

\* serializeHeader that knows Headers objects and arrays only
serializeHeaderNoObject(headers) ==
    CASE headers.form = "undefined" -> <<>>
      [] headers.form = "Headers" -> HeadersEntries(headers.list)
      [] headers.form = "array" -> headers.list
      [] headers.form = "object" -> <<>>

serializeHeader(headers) ==
    CASE headers.form = "undefined" -> <<>>
      [] headers.form = "Headers" -> HeadersEntries(headers.list)
      [] headers.form = "array" -> headers.list
      [] headers.form = "object" -> ObjectEntries(headers.list)

(***************************************************************************)
(* The calls the typed client makes, and the router behind the IPC handler *)
(***************************************************************************)
GetUserCalls ==
    {[route |-> "getUser", method |-> "GET", path |-> <<"users", id>>, body |-> "undefined"] :
        id \in {"usr_1", "usr_404", "bad!"}}
CreateUserCalls ==
    {[route |-> "createUser", method |-> "POST", path |-> <<"users">>, body |-> b] :
        b \in {"{displayName:'Ann'}", "{displayName:''}", "{"}}
ListUsersCalls ==
    {[route |-> "listUsers", method |-> "GET", path |-> <<"users">>, body |-> "undefined"]}
GetActiveCalls ==
    {[route |-> "getActive", method |-> "GET", path |-> <<"events", "active">>, body |-> "undefined"]}
Calls == GetUserCalls \cup CreateUserCalls \cup ListUsersCalls \cup GetActiveCalls

\* input.toString(): the pseudo-URL with the path
Url(path) == <<"http://internal.localhost">> \o path
PathOf(url) == Tail(url)

\* the route the router matches
RouteOf(method, path) ==
    CASE method = "GET" /\ Len(path) = 2 /\ path[1] = "users" -> "getUser"
      [] method = "POST" /\ path = <<"users">> -> "createUser"
      [] method = "GET" /\ path = <<"users">> -> "listUsers"
      [] method = "GET" /\ path = <<"events", "active">> -> "getActive"
      [] OTHER -> "notFound"

Json(status, kind, msg) == [status |-> status, json |-> TRUE, body |-> [kind |-> kind, msg |-> msg]]
Text(status, msg) == [status |-> status, json |-> FALSE, body |-> [kind |-> "text", msg |-> msg]]

\* z.string().regex(/^usr_[a-zA-Z0-9]+$/)
UserIdParam(id) == id \in {"usr_1", "usr_404"}

\* c.req.json() then CreateUserBody: displayName of 1 to 100 characters
CreateUserBody(body) ==
    CASE body = "{displayName:'Ann'}" -> "ok"
      [] body = "{displayName:''}" -> "invalid"
      [] OTHER -> "malformed"

\* a validator that lets every input through
zValidatorPassAll(route, path, body) == "ok"

\* what the route's zValidator middleware finds
zValidator(route, path, body) ==
    CASE route = "getUser" -> IF UserIdParam(path[2]) THEN "ok" ELSE "invalid"
      [] route = "createUser" -> CreateUserBody(body)
      [] OTHER -> "ok"

\* an exception that reaches the router: app.onError where the app was
\* built with it, the router's plain-text 500 otherwise
ErrorHandler(installed) ==
    IF installed THEN Json(500, "error", <<"Internal Server Error">>)
                 ELSE Text(500, <<"Internal Server Error">>)

\* the response of a request the validator turns down; malformed JSON is an
\* HTTPException(400) of the validator, answered by the error handler
Rejection(found, installed) ==
    IF found = "invalid" THEN Json(400, "validation", <<"issues">>)
    ELSE IF installed THEN Json(400, "error", <<"Malformed JSON in request body">>)
    ELSE Text(400, <<"Malformed JSON in request body">>)

\* the messages of the backend's errors
InternalMessages == {e.msg : e \in QueryErrors}

\* what the service, or firstValueFromResult on its Query, gives the handler
Outcomes(route) ==
    IF route = "getActive"
       THEN {[k |-> "ok", v |-> "value", type |-> "none", msg |-> <<>>]}
              \cup {[k |-> "err", v |-> "none",
                     type |-> MapError("typed", DEFAULT_TIMEOUT_MS, e).cls,
                     msg |-> MapError("typed", DEFAULT_TIMEOUT_MS, e).msg] : e \in QueryErrors}
       ELSE {[k |-> "ok", v |-> v, type |-> "none", msg |-> <<>>] :
                v \in IF route = "getUser" THEN {"value", "undefined"} ELSE {"value"}}
              \cup {[k |-> "err", v |-> "none", type |-> t, msg |-> m] :
                      t \in {"NotFound", "Conflict", "Validation", "Database"},
                      m \in InternalMessages}
              \cup {[k |-> "throw", v |-> "none", type |-> "Error", msg |-> m] :
                      m \in InternalMessages}

handleError(error) ==
    CASE error.type = "NotFound" -> Json(404, "error", <<"User not found">>)
      [] error.type = "Conflict" -> Json(409, "error", error.msg)
      [] error.type = "Validation" -> Json(400, "error", error.msg)
      [] OTHER -> Json(500, "error", <<"Internal server error">>)

\* the handler of GET /events/active, with instanceof narrowing
ActiveError(error) ==
    IF error.type = "QueryTimeoutError"
       THEN Json(504, "error", <<"Request timed out">>)
       ELSE Json(500, "error", error.msg)

\* the response the matched handler produces from the outcome
HandlerResponse(route, path, outcome, installed) ==
    CASE outcome.k = "throw" -> ErrorHandler(installed)
      [] outcome.k = "err" ->
           IF route = "getActive" THEN ActiveError(outcome) ELSE handleError(outcome)
      [] route = "getUser" ->
           IF outcome.v = "undefined"
              THEN Json(404, "error", <<"User not found">>)
              ELSE Json(200, "user", <<path[2]>>)
      [] route = "createUser" -> Json(201, "user", <<"created">>)
      [] route = "listUsers" -> Json(200, "users", <<>>)
      [] route = "getActive" -> Json(200, "event", <<>>)

\* the own enumerable string-keyed properties of a Response: status, ok and
\* headers are accessors of Response.prototype, so there are none
OwnKeys == {}

\* { ...res }
Spread(res) == [key \in OwnKeys |-> res[key]]

\* Response.json(data, rest): the status defaults to 200
RebuiltStatus(rest) == IF "status" \in DOMAIN rest THEN rest.status ELSE 200

NoCall == [route |-> "none", method |-> "none", path |-> <<>>, body |-> "undefined",
           headers |-> [form |-> "undefined", list |-> <<>>]]
NoOutcome == [k |-> "none", v |-> "none", type |-> "none", msg |-> <<>>]
NoResponse == Text(0, <<>>)
NoSeen == [kind |-> "none", status |-> 0, body |-> NoResponse.body]

IdleRpc ==
    [pc |-> "idle", call |-> NoCall, args |-> <<>>, received |-> <<>>, found |-> "none",
     outcome |-> NoOutcome, serviceCalls |-> 0, res |-> NoResponse, logged |-> FALSE,
     envelope |-> <<>>, seen |-> NoSeen]

\* client.<route>.$get / $post: the custom fetch encodes the request and
\* invokes 'hono-rpc-electron'
ClientFetch(call, headers) ==
    /\ rpc.pc = "idle"
    /\ rpc' = [IdleRpc EXCEPT
                 !.pc = "invoked",
                 !.call = [route |-> call.route, method |-> call.method, path |-> call.path,
                           body |-> call.body, headers |-> headers],
                 !.args = <<Url(call.path), call.method, serializeHeader(headers), call.body>>]
    /\ UNCHANGED onError
    /\ UNCHANGED <<rvars, svars, hvars, ovars, cvars, yvars>>

\* the ipcMain handler takes (url, method, headers, body) and calls
\* callable.request: the router matches the route and runs its validator;
\* the handler body runs, and calls the service, only if the validator passes
MainHandle ==
    /\ rpc.pc = "invoked"
    /\ LET url == rpc.args[1]
           method == rpc.args[2]
           route == RouteOf(method, PathOf(url))
           found == zValidator(route, PathOf(url), rpc.args[4])
       IN rpc' = [rpc EXCEPT
                    !.received = [path |-> PathOf(url), method |-> method,
                                  headers |-> rpc.args[3], body |-> rpc.args[4]],
                    !.found = found,
                    !.pc = IF found = "ok" THEN "service" ELSE "routed",
                    !.serviceCalls = IF found = "ok" THEN 1 ELSE 0,
                    !.res = IF found = "ok" THEN NoResponse ELSE Rejection(found, onError)]
    /\ UNCHANGED onError
    /\ UNCHANGED <<rvars, svars, hvars, ovars, cvars, yvars>>

\* the service call settles and the handler builds the response
ServiceSettles(outcome) ==
    /\ rpc.pc = "service"
    /\ outcome \in Outcomes(rpc.call.route)
    /\ rpc' = [rpc EXCEPT
                 !.outcome = outcome,
                 !.res = HandlerResponse(rpc.call.route, rpc.received.path, outcome, onError),
                 !.pc = "routed"]
    /\ UNCHANGED onError
    /\ UNCHANGED <<rvars, svars, hvars, ovars, cvars, yvars>>

\* the rest of the ipcMain handler: res.json(), the error log, and the
\* envelope { ...res, data }; res.json() throws on a body that is not JSON
\* and the invoke rejects
MainReply ==
    /\ rpc.pc = "routed"
    /\ IF rpc.res.json
          THEN rpc' = [rpc EXCEPT
                         !.logged = rpc.res.status >= 400,
                         !.envelope = [rest |-> Spread(rpc.res), data |-> rpc.res.body],
                         !.pc = "replied"]
          ELSE rpc' = [rpc EXCEPT
                         !.seen = [kind |-> "rejected", status |-> 0, body |-> NoResponse.body],
                         !.pc = "done"]
    /\ UNCHANGED onError
    /\ UNCHANGED <<rvars, svars, hvars, ovars, cvars, yvars>>

\* back in the custom fetch: Response.json(data, rest)
ClientRebuild ==
    /\ rpc.pc = "replied"
    /\ rpc' = [rpc EXCEPT
                 !.seen = [kind |-> "response",
                           status |-> RebuiltStatus(rpc.envelope.rest),
                           body |-> rpc.envelope.data],
                 !.pc = "done"]
    /\ UNCHANGED onError
    /\ UNCHANGED <<rvars, svars, hvars, ovars, cvars, yvars>>

\* the promise of the custom fetch settles and the caller goes on
CallReturns ==
    /\ rpc.pc = "done"
    /\ rpc' = IdleRpc
    /\ UNCHANGED onError
    /\ UNCHANGED <<rvars, svars, hvars, ovars, cvars, yvars>>

InitRpc ==
    /\ onError \in BOOLEAN
    /\ rpc = IdleRpc

(***************************************************************************)
(* useOptimisticValue(realValue, onUpdate)                                 *)
(***************************************************************************)
Values == {"a", "b", "c"}

\* a selection that prefers the older of the two
SelectOlder(r, o) == IF r.ts < o.ts THEN r.value ELSE o.value

\* const value = real.ts > optimistic.ts ? real.value : optimistic.value
Select(r, o) == IF r.ts > o.ts THEN r.value ELSE o.value

\* a millisecond passes
NowAdvances ==
    /\ now < MaxNow
    /\ now' = now + 1
    /\ UNCHANGED <<realValue, real, optimistic, value, updates, lastSettled>>
    /\ UNCHANGED <<rvars, svars, hvars, pvars, cvars, yvars>>

\* the data source hands the component another realValue: the render
\* recomputes the memoised real with a new timestamp and selects the value
RealValueChanges(v) ==
    /\ v # realValue
    /\ realValue' = v
    /\ real' = [ts |-> now, value |-> v]
    /\ value' = Select(real', optimistic)
    /\ UNCHANGED <<now, optimistic, updates, lastSettled>>
    /\ UNCHANGED <<rvars, svars, hvars, pvars, cvars, yvars>>

\* updateOptimistically(newValue): setOptimistic, onUpdate(newValue) is
\* started, and the component renders again
updateOptimistically(newValue) ==
    /\ updates[newValue] < MaxUpdates
    /\ optimistic' = [ts |-> now, value |-> newValue]
    /\ updates' = [updates EXCEPT ![newValue] = @ + 1]
    /\ value' = Select(real, optimistic')
    /\ UNCHANGED <<now, realValue, real, lastSettled>>
    /\ UNCHANGED <<rvars, svars, hvars, pvars, cvars, yvars>>

\* an onUpdate call settles; when it succeeded and the source now holds
\* another value, the component renders with it
onUpdateSettles(v, okay) ==
    /\ updates[v] > 0
    /\ updates' = [updates EXCEPT ![v] = @ - 1]
    /\ lastSettled' = [v |-> v, okay |-> okay]
    /\ IF okay /\ v # realValue
          THEN /\ realValue' = v
               /\ real' = [ts |-> now, value |-> v]
               /\ value' = Select(real', optimistic)
          ELSE UNCHANGED <<realValue, real, value>>
    /\ UNCHANGED <<now, optimistic>>
    /\ UNCHANGED <<rvars, svars, hvars, pvars, cvars, yvars>>

\* the first render: optimistic starts as real
InitOptimistic ==
    /\ now = 0
    /\ realValue \in Values
    /\ real = [ts |-> now, value |-> realValue]
    /\ optimistic = real
    /\ value = Select(real, optimistic)
    /\ updates = [v \in Values |-> 0]
    /\ lastSettled = [v |-> realValue, okay |-> TRUE]

InitHandlers ==
    /\ read = IdleRead(0)
    /\ finished = {}
    /\ chain = "none"
    /\ observers = 0

InitRenderer ==
    /\ subscriptions = <<>>
    /\ root = <<>>
    /\ ipcListeners = {}
    /\ handles = <<>>
    /\ lastOp = [h |-> 0, rep |-> FALSE]
    /\ lastFanout = [n |-> 0, order |-> <<>>, missed |-> {}]
    /\ mounted = 0
    /\ mountCount = 0
    /\ atomHandle = 0
    /\ streamValue = -1
    /\ timers = {}
    /\ timeoutId = [c \in Closures |-> 0]
    /\ fetches = <<>>
    /\ deb = [c \in Closures |-> [owed |-> 0, n |-> 0, split |-> FALSE,
                                  since |-> 0, lastVer |-> -1]]
    /\ serverVer = 0
    /\ ipcQueue = <<>>

\* new EventServiceImpl(db): the table outlives the process, so it is empty
\* or already holds an active event
InitService ==
    /\ db \in {[active |-> 0, count |-> 0, hidden |-> {}, writes |-> 0],
               [active |-> 1, count |-> 1, hidden |-> {}, writes |-> 0]}
    /\ notifyTok = 0
    /\ snapshots = 0
    /\ clock = 0
    /\ cmd = [pc |-> "idle", n |-> 0]
    /\ lastCmd = [result |-> "none", kind |-> "none", step |-> 0, okVer |-> -1]
    /\ subs = <<>>

(***************************************************************************)
(* The hybrid cache: a stream atom kept up to date by push events, and     *)
(* a single-fetch atom (atomWithRefresh) read while the stream is undefined*)
(***************************************************************************)

UserIds == 1..MaxUsers
DisplayNames == {"a", "b"}
User == [id : UserIds, displayName : DisplayNames]

\* a list of users: no two rows with the same id
UserLists == {l \in SUBSET User : \A u, v \in l : u.id = v.id => u = v}

\* what res.json() gives: the list, or the { error } object of a failure
ListBody(l) == [kind |-> "list", users |-> l]
ErrorBody == [kind |-> "error", users |-> {}]
NoBody == [kind |-> "none", users |-> {}]

\* the hybrid read atoms of the repository; the getter of notificationsAtom
\* is declared async, the getters of usersAtom and preInviteesAtom are not
HybridAtoms == {"usersAtom", "notificationsAtom"}
IsAsync(a) == a = "notificationsAtom"

\* atom<{ value: User[] }>() starts undefined
Undefined == [def |-> FALSE, body |-> NoBody, fresh |-> FALSE]

\* atomWithRefresh before its first read, and after set(atom)
Stale == [st |-> "stale", body |-> NoBody]

NoRefetch == [pc |-> "none", status |-> 0, body |-> NoBody, fresh |-> FALSE]
NoRead == [path |-> "none", sync |-> FALSE, has |-> FALSE, body |-> NoBody,
           fresh |-> FALSE]
NoWrite == [pc |-> "none", atom |-> "none", id |-> 0, name |-> "none",
            previous |-> NoBody, status |-> 0, body |-> NoBody]

InitHybrid ==
    /\ hybridAtom \in HybridAtoms
    /\ table = {}
    /\ stream = Undefined
    /\ single = Stale
    /\ refetch = NoRefetch
    /\ lastRead = NoRead
    /\ refreshed = FALSE
    /\ writing = NoWrite

\* GET /users as the router answers it: the list, or the 500 of a failed
\* Query
UsersReplies == {"list", "error"}
UsersReply(how) ==
    IF how = "list" THEN [status |-> 200, body |-> ListBody(table)]
                    ELSE [status |-> 500, body |-> ErrorBody]

\* the status the client's Response carries after the IPC envelope
SeenStatus(res) == RebuiltStatus(Spread(res))

\* res.ok
ResOk(status) == status \in 200..299

\* the hybrid atom's getter:
\*   const stream = get(streamUsersAtom);
\*   if (stream !== undefined) return stream.value;
\*   return get(singleFetchUsersAtom);
\* A read of singleFetchUsersAtom that finds no promise runs the fetch.
usersAtom ==
    /\ IF stream.def
          THEN /\ lastRead' = [path |-> "stream", sync |-> ~IsAsync(hybridAtom),
                               has |-> TRUE, body |-> stream.body,
                               fresh |-> stream.fresh]
               /\ UNCHANGED single
          ELSE /\ lastRead' = [path |-> "pull", sync |-> FALSE,
                               has |-> single.st = "fulfilled",
                               body |-> IF single.st = "fulfilled"
                                           THEN single.body ELSE NoBody,
                               fresh |-> single.st = "fulfilled"]
               /\ single' = IF single.st = "stale"
                               THEN [single EXCEPT !.st = "pending"] ELSE single
    /\ refreshed' = FALSE
    /\ UNCHANGED <<hybridAtom, table, stream, refetch, writing>>

\* singleFetchUsersAtom's fetch settles:
\*   switch (res.status) { case 200: return res.json(); ... default: throw }
singleFetchUsersAtom(how) ==
    /\ single.st = "pending"
    /\ single' = IF SeenStatus(UsersReply(how)) = 200
                    THEN [st |-> "fulfilled", body |-> UsersReply(how).body]
                    ELSE [st |-> "rejected", body |-> NoBody]
    /\ UNCHANGED <<hybridAtom, table, stream, refetch, lastRead, refreshed, writing>>

\* the IPC call of the fetch fails: the promise rejects
SingleFetchRejects ==
    /\ single.st = "pending"
    /\ single' = [st |-> "rejected", body |-> NoBody]
    /\ UNCHANGED <<hybridAtom, table, stream, refetch, lastRead, refreshed, writing>>

\* usersSource emits and, the debounce delay over, handleUpdate runs:
\*   const res = await client.users.$get();
handleUpdate ==
    /\ refetch.pc = "none"
    /\ refetch' = [NoRefetch EXCEPT !.pc = "sent"]
    /\ UNCHANGED <<hybridAtom, table, stream, single, lastRead, refreshed, writing>>

\* the main process answers handleUpdate's GET
RefetchServed(how) ==
    /\ refetch.pc = "sent"
    /\ refetch' = [pc |-> "served", status |-> SeenStatus(UsersReply(how)),
                   body |-> UsersReply(how).body, fresh |-> TRUE]
    /\ UNCHANGED <<hybridAtom, table, stream, single, lastRead, refreshed, writing>>

\* the IPC call of handleUpdate fails: nothing is set
RefetchRejects ==
    /\ refetch.pc = "sent"
    /\ refetch' = NoRefetch
    /\ UNCHANGED <<hybridAtom, table, stream, single, lastRead, refreshed, writing>>

\* a handler that keeps the rows it already had next to the new ones
ContainerMerged(body, fresh) ==
    [def |-> TRUE,
     body |-> IF stream.def THEN [body EXCEPT !.users = @ \cup stream.body.users]
                            ELSE body,
     fresh |-> fresh]

\* { value: await res.json() }
Container(body, fresh) == [def |-> TRUE, body |-> body, fresh |-> fresh]

\* the response reaches the handler: if (res.ok) set({ value: await res.json() })
RefetchLands ==
    /\ refetch.pc = "served"
    /\ stream' = IF ResOk(refetch.status)
                    THEN Container(refetch.body, refetch.fresh) ELSE stream
    /\ refetch' = NoRefetch
    /\ UNCHANGED <<hybridAtom, table, single, lastRead, refreshed, writing>>

\* manual refresh: set(streamAtom, undefined); set(singleFetchAtom).
\* What was fetched before it is no longer fresh.
Refresh ==
    /\ stream' = Undefined
    /\ single' = Stale
    /\ refetch' = [refetch EXCEPT !.fresh = FALSE]
    /\ refreshed' = TRUE
    /\ UNCHANGED <<hybridAtom, table, lastRead, writing>>

\* another window changes the users
TableChanges(l) ==
    /\ l # table
    /\ table' = l
    /\ UNCHANGED <<hybridAtom, stream, single, refetch, lastRead, refreshed, writing>>

(***************************************************************************)
(* Write atoms over the hybrid cache                                       *)
(***************************************************************************)

WriteAtoms == {"createUserAtom", "updateUserAtom", "deleteUserAtom",
               "optimisticDeleteUserAtom", "optimisticUpdateUserAtom"}
OptimisticAtoms == {"optimisticDeleteUserAtom", "optimisticUpdateUserAtom"}

\* the request a write atom sends
RequestOf(a) ==
    CASE a = "createUserAtom" -> "$post"
      [] a \in {"updateUserAtom", "optimisticUpdateUserAtom"} -> "$put"
      [] a \in {"deleteUserAtom", "optimisticDeleteUserAtom"} -> "$delete"

\* the status a write atom's switch takes as success
SuccessStatus(a) == IF a = "createUserAtom" THEN 201 ELSE 200

\* one user, as the body of an answer
UserBody(u) == [kind |-> "user", users |-> {u}]

HasUser(l, id) == \E u \in l : u.id = id
FreeIds == {i \in UserIds : ~HasUser(table, i)}

\* previousUsers.filter((u) => u.id !== id)
FilterOut(l, id) == {u \in l : u.id # id}

\* previousUsers.map((u) => u.id === id ? { ...u, ...data } : u)
MapUpdate(l, id, name) ==
    {IF u.id = id THEN [u EXCEPT !.displayName = name] ELSE u : u \in l}

\* previousUsers.map((u) => u.id === id ? serverUser : u), serverUser
\* being whatever res.json() gave
MapServerUser(l, id, body) ==
    IF body.kind = "user"
       THEN ListBody(FilterOut(l, id) \cup body.users)
       ELSE [kind |-> "mixed", users |-> FilterOut(l, id)]

\* the main process handles the request: the status and body it answers
\* with, and the table afterwards
WriteReply(w, how) ==
    CASE how = "error" -> [status |-> 500, body |-> ErrorBody, table |-> table]
      [] how = "ok" /\ RequestOf(w.atom) = "$post" ->
            IF FreeIds = {}
               THEN [status |-> 409, body |-> ErrorBody, table |-> table]
               ELSE LET id == CHOOSE i \in FreeIds : \A j \in FreeIds : i <= j
                        u == [id |-> id, displayName |-> w.name]
                    IN  [status |-> 201, body |-> UserBody(u),
                         table |-> table \cup {u}]
      [] how = "ok" /\ RequestOf(w.atom) = "$put" ->
            IF HasUser(table, w.id)
               THEN [status |-> 200,
                     body |-> UserBody([id |-> w.id, displayName |-> w.name]),
                     table |-> MapUpdate(table, w.id, w.name)]
               ELSE [status |-> 404, body |-> ErrorBody, table |-> table]
      [] how = "ok" /\ RequestOf(w.atom) = "$delete" ->
            IF HasUser(table, w.id)
               THEN [status |-> 200, body |-> NoBody,
                     table |-> FilterOut(table, w.id)]
               ELSE [status |-> 404, body |-> ErrorBody, table |-> table]

\* no write atom is running
WriteIdle == writing.pc \in {"none", "returned", "threw"}

\* createUserAtom, updateUserAtom, deleteUserAtom: send the request
SendWrite(a, id, name) ==
    /\ WriteIdle
    /\ writing' = [NoWrite EXCEPT !.pc = "sent", !.atom = a, !.id = id,
                                  !.name = name]
    /\ UNCHANGED <<hybridAtom, table, stream, single, refetch, lastRead, refreshed>>

createUserAtom(name) == SendWrite("createUserAtom", 0, name)
updateUserAtom(id, name) == SendWrite("updateUserAtom", id, name)
deleteUserAtom(id) == SendWrite("deleteUserAtom", id, "none")

\* const previousUsers = get(usersAtom): a list while the stream value is a
\* list; otherwise the atom throws at previousUsers.filter / .find before
\* it has set anything
PreviousUsers == stream.def /\ stream.body.kind = "list"

\* optimisticDeleteUserAtom: save, remove from the stream value, send
optimisticDeleteUserAtom(id) ==
    /\ WriteIdle
    /\ PreviousUsers
    /\ stream' = Container(ListBody(FilterOut(stream.body.users, id)), stream.fresh)
    /\ writing' = [NoWrite EXCEPT !.pc = "sent", !.atom = "optimisticDeleteUserAtom",
                                  !.id = id, !.previous = stream.body]
    /\ UNCHANGED <<hybridAtom, table, single, refetch, lastRead, refreshed>>

\* optimisticUpdateUserAtom: save, find the target (NotFoundError without
\* it), change it in the stream value, send
optimisticUpdateUserAtom(id, name) ==
    /\ WriteIdle
    /\ PreviousUsers
    /\ HasUser(stream.body.users, id)
    /\ stream' = Container(ListBody(MapUpdate(stream.body.users, id, name)),
                           stream.fresh)
    /\ writing' = [NoWrite EXCEPT !.pc = "sent", !.atom = "optimisticUpdateUserAtom",
                                  !.id = id, !.name = name,
                                  !.previous = stream.body]
    /\ UNCHANGED <<hybridAtom, table, single, refetch, lastRead, refreshed>>

\* the main process handles the request
WriteServed(how) ==
    /\ writing.pc = "sent"
    /\ table' = WriteReply(writing, how).table
    /\ writing' = [writing EXCEPT !.pc = "served",
                                  !.status = WriteReply(writing, how).status,
                                  !.body = WriteReply(writing, how).body]
    /\ UNCHANGED <<hybridAtom, stream, single, refetch, lastRead, refreshed>>

\* catch (error) { set(streamUsersAtom, { value: previousUsers }); throw error; }
Rollback(w) == Container(w.previous, stream.fresh)

\* the IPC call of the request fails: the await throws
WriteRejects ==
    /\ writing.pc = "sent"
    /\ stream' = IF writing.atom \in OptimisticAtoms THEN Rollback(writing) ELSE stream
    /\ writing' = [writing EXCEPT !.pc = "threw"]
    /\ UNCHANGED <<hybridAtom, table, single, refetch, lastRead, refreshed>>

\* the answer reaches the write atom: switch (res.status) { ... }
WriteLands ==
    /\ writing.pc = "served"
    /\ LET seen == SeenStatus([status |-> writing.status])
           success == seen = SuccessStatus(writing.atom)
       IN  /\ writing' = [writing EXCEPT !.pc = IF success THEN "returned" ELSE "threw"]
           /\ single' = IF success /\ writing.atom \notin OptimisticAtoms
                           THEN Stale ELSE single
           /\ stream' =
                CASE writing.atom \notin OptimisticAtoms -> stream
                  [] ~success -> Rollback(writing)
                  [] writing.atom = "optimisticDeleteUserAtom" -> stream
                  [] OTHER -> Container(MapServerUser(writing.previous.users,
                                                      writing.id, writing.body),
                                        stream.fresh)
    /\ UNCHANGED <<hybridAtom, table, refetch, lastRead, refreshed>>

(***************************************************************************)
(* The service the new-service template generates: Commands over one table *)
(***************************************************************************)

\* the ids a caller passes, and the table can hold
EntityIds == 1..MaxEntities

IdleCall == [pc |-> "idle", kind |-> "none", id |-> 0, outcome |-> "none"]

\* a fresh database, and no Command called yet
InitTemplate ==
    /\ rows = {}
    /\ invocation = IdleCall

\* what `p.andThen` evaluates to, by what p is: a ResultAsync has the
\* method, the Promise an async function returns has not, and calling
\* undefined throws a TypeError
HasAndThen(receiver) == receiver = "ResultAsync"

\* #insert, #update and #remove return ResultAsync.fromPromise(...);
\* #getById is an async function
ReturnOf(op) == IF op = "#getById" THEN "Promise" ELSE "ResultAsync"

\* the private method a Command calls first
FirstOp(kind) ==
    CASE kind = "create" -> "#insert"
      [] kind = "update" -> "#update"
      [] kind = "delete" -> "#getById"

\* a Command is called: it calls its first private method and chains
\* .andThen on what that returned
CommandCalled(kind, id) ==
    /\ invocation.pc = "idle"
    /\ invocation' = IF HasAndThen(ReturnOf(FirstOp(kind)))
                  THEN [pc |-> "store", kind |-> kind, id |-> id, outcome |-> "none"]
                  ELSE [pc |-> "returned", kind |-> kind, id |-> id,
                        outcome |-> "throws"]
    /\ UNCHANGED rows

\* create(data): #insert(data).andThen(notify)
create(id) == id \notin rows /\ CommandCalled("create", id)

\* update(data): #update(data).andThen(notify)
update(id) == CommandCalled("update", id)

\* delete(id): #getById(id).andThen(match ...).andThen(notify)
delete(id) == CommandCalled("delete", id)

\* the store promise of #insert / #update fulfils: the ResultAsync is Ok
StoreFulfils ==
    /\ invocation.pc = "store"
    /\ rows' = IF invocation.kind = "create" THEN rows \cup {invocation.id} ELSE rows
    /\ invocation' = [invocation EXCEPT !.pc = "returned", !.outcome = "ok"]

\* the store promise rejects: fromPromise maps it to an ApplicationError
StoreRejects ==
    /\ invocation.pc = "store"
    /\ invocation' = [invocation EXCEPT !.pc = "returned", !.outcome = "err"]
    /\ UNCHANGED rows

\* the caller has looked at what came back
CallerContinues ==
    /\ invocation.pc = "returned"
    /\ invocation' = [invocation EXCEPT !.pc = "idle"]
    /\ UNCHANGED rows

\* the app as createCallable builds it, and the component showing "a"
Init ==
    /\ InitRenderer /\ InitService /\ InitHandlers
    /\ InitRpc /\ ~onError
    /\ InitOptimistic /\ realValue = "a"
    /\ InitTemplate
    /\ InitHybrid /\ hybridAtom = "usersAtom"

\* either build of the app, over an empty table
InitWithRpc ==
    /\ InitRenderer /\ InitService /\ InitHandlers
    /\ db.count = 0
    /\ InitRpc
    /\ InitOptimistic /\ realValue = "a"
    /\ InitTemplate
    /\ InitHybrid /\ hybridAtom = "usersAtom"

\* the component first rendered with any value
InitWithOptimistic ==
    /\ InitRenderer /\ InitService /\ InitHandlers
    /\ db.count = 0
    /\ InitRpc /\ ~onError
    /\ InitOptimistic
    /\ InitTemplate
    /\ InitHybrid /\ hybridAtom = "usersAtom"

\* the generated service over a fresh database
InitWithTemplate ==
    /\ InitRenderer /\ InitService /\ InitHandlers
    /\ db.count = 0
    /\ InitRpc /\ ~onError
    /\ InitOptimistic /\ realValue = "a"
    /\ InitTemplate
    /\ InitHybrid /\ hybridAtom = "usersAtom"

\* the window reading usersAtom, no user created yet
InitWithWrites ==
    /\ InitRenderer /\ InitService /\ InitHandlers
    /\ db.count = 0
    /\ InitRpc /\ ~onError
    /\ InitOptimistic /\ realValue = "a"
    /\ InitTemplate
    /\ InitHybrid /\ hybridAtom = "usersAtom"

\* either kind of hybrid atom over an empty table
InitWithHybrid ==
    /\ InitRenderer /\ InitService /\ InitHandlers
    /\ db.count = 0
    /\ InitRpc /\ ~onError
    /\ InitOptimistic /\ realValue = "a"
    /\ InitTemplate
    /\ InitHybrid

\* the event source alone, with plain subscribers
NextMux ==
    \/ \E cb \in PlainCallbacks : Subscribe(cb)
    \/ \E h \in DOMAIN handles : Unsubscribe(h)
    \/ ServerChange
    \/ IpcEvent

\* the stream atom, the only subscriber of its event source
NextAtom ==
    \/ Mount
    \/ Unmount
    \/ ServerChange
    \/ IpcEvent
    \/ Tick
    \/ \E t \in timers : TimerFire(t)
    \/ \E i \in 1..MaxRpc, okay \in BOOLEAN : ServeFetch(i, okay)
    \/ \E i \in 1..MaxRpc : FetchDone(i)

\* the service, its callers and its subscribers
NextService ==
    \/ QuerySubscribe
    \/ \E i \in DOMAIN subs : \E f \in BagToSet(subs[i].inflight), okay \in BOOLEAN :
           DbRead(i, f, okay)
    \/ \E i \in DOMAIN subs : \E f \in BagToSet(subs[i].inflight) : Deliver(i, f)
    \/ \E kind \in Kinds, id \in Ids : StartCmd(kind, id)
    \/ CmdStepOk
    \/ CmdStepFail
    \/ CmdNotify
    \/ ClockTick

SpecMux == Init /\ [][NextMux]_vars

SpecAtom == Init /\ [][NextAtom]_vars

SpecService == Init /\ [][NextService]_vars

\* route handlers reading Queries through firstValueFromResult
NextRead ==
    \/ \E impl \in Impls, options \in OptionSets : StartRead(impl, options)
    \/ Advance
    \/ QueryEmits
    \/ \E e \in QueryErrors : QueryFails(e)
    \/ TimeoutFires

SpecRead == Init /\ [][NextRead]_vars

\* RPC calls from the renderer's typed client through the IPC handler
NextRpc ==
    \/ \E call \in Calls, headers \in HeaderInputs : ClientFetch(call, headers)
    \/ MainHandle
    \/ \E outcome \in Outcomes(rpc.call.route) : ServiceSettles(outcome)
    \/ MainReply
    \/ ClientRebuild
    \/ CallReturns

SpecRpc == InitWithRpc /\ [][NextRpc]_vars

\* a component showing a value through useOptimisticValue
NextOptimistic ==
    \/ NowAdvances
    \/ \E v \in Values : RealValueChanges(v)
    \/ \E v \in Values : updateOptimistically(v)
    \/ \E v \in Values, okay \in BOOLEAN : onUpdateSettles(v, okay)

SpecOptimistic == InitWithOptimistic /\ [][NextOptimistic]_vars

\* Commands of the generated service, called one at a time
NextTemplate ==
    \/ \E id \in EntityIds : create(id) /\ UNCHANGED <<rvars, svars, hvars, pvars, ovars, yvars>>
    \/ \E id \in EntityIds : update(id) /\ UNCHANGED <<rvars, svars, hvars, pvars, ovars, yvars>>
    \/ \E id \in EntityIds : delete(id) /\ UNCHANGED <<rvars, svars, hvars, pvars, ovars, yvars>>
    \/ StoreFulfils /\ UNCHANGED <<rvars, svars, hvars, pvars, ovars, yvars>>
    \/ StoreRejects /\ UNCHANGED <<rvars, svars, hvars, pvars, ovars, yvars>>
    \/ CallerContinues /\ UNCHANGED <<rvars, svars, hvars, pvars, ovars, yvars>>

SpecTemplate == InitWithTemplate /\ [][NextTemplate]_vars

\* the hybrid cache of one window: reads, push events, manual refresh
NextHybrid ==
    \/ usersAtom /\ UNCHANGED <<rvars, svars, hvars, pvars, ovars, cvars>>
    \/ \E how \in UsersReplies :
          singleFetchUsersAtom(how) /\ UNCHANGED <<rvars, svars, hvars, pvars, ovars, cvars>>
    \/ SingleFetchRejects /\ UNCHANGED <<rvars, svars, hvars, pvars, ovars, cvars>>
    \/ handleUpdate /\ UNCHANGED <<rvars, svars, hvars, pvars, ovars, cvars>>
    \/ \E how \in UsersReplies :
          RefetchServed(how) /\ UNCHANGED <<rvars, svars, hvars, pvars, ovars, cvars>>
    \/ RefetchRejects /\ UNCHANGED <<rvars, svars, hvars, pvars, ovars, cvars>>
    \/ RefetchLands /\ UNCHANGED <<rvars, svars, hvars, pvars, ovars, cvars>>
    \/ Refresh /\ UNCHANGED <<rvars, svars, hvars, pvars, ovars, cvars>>
    \/ \E l \in UserLists :
          TableChanges(l) /\ UNCHANGED <<rvars, svars, hvars, pvars, ovars, cvars>>

SpecHybrid == InitWithHybrid /\ [][NextHybrid]_vars

\* one window reading the users and changing them through the write atoms
NextWrites ==
    \/ usersAtom /\ UNCHANGED <<rvars, svars, hvars, pvars, ovars, cvars>>
    \/ \E how \in UsersReplies :
          singleFetchUsersAtom(how) /\ UNCHANGED <<rvars, svars, hvars, pvars, ovars, cvars>>
    \/ handleUpdate /\ UNCHANGED <<rvars, svars, hvars, pvars, ovars, cvars>>
    \/ \E how \in UsersReplies :
          RefetchServed(how) /\ UNCHANGED <<rvars, svars, hvars, pvars, ovars, cvars>>
    \/ RefetchLands /\ UNCHANGED <<rvars, svars, hvars, pvars, ovars, cvars>>
    \/ \E name \in DisplayNames :
          createUserAtom(name) /\ UNCHANGED <<rvars, svars, hvars, pvars, ovars, cvars>>
    \/ \E id \in UserIds, name \in DisplayNames :
          updateUserAtom(id, name) /\ UNCHANGED <<rvars, svars, hvars, pvars, ovars, cvars>>
    \/ \E id \in UserIds :
          deleteUserAtom(id) /\ UNCHANGED <<rvars, svars, hvars, pvars, ovars, cvars>>
    \/ \E id \in UserIds :
          optimisticDeleteUserAtom(id) /\ UNCHANGED <<rvars, svars, hvars, pvars, ovars, cvars>>
    \/ \E id \in UserIds, name \in DisplayNames :
          optimisticUpdateUserAtom(id, name) /\ UNCHANGED <<rvars, svars, hvars, pvars, ovars, cvars>>
    \/ \E how \in {"ok", "error"} :
          WriteServed(how) /\ UNCHANGED <<rvars, svars, hvars, pvars, ovars, cvars>>
    \/ WriteRejects /\ UNCHANGED <<rvars, svars, hvars, pvars, ovars, cvars>>
    \/ WriteLands /\ UNCHANGED <<rvars, svars, hvars, pvars, ovars, cvars>>

SpecWrites == InitWithWrites /\ [][NextWrites]_vars

\* The renderer's event loop runs what is runnable: time passes, a due
\* timer callback runs, ipcRenderer delivers a queued event, the main
\* process answers an RPC call and the response reaches the caller.
FairAtom ==
    /\ WF_vars(Tick)
    /\ WF_vars(IpcEvent)
    /\ WF_vars(\E t \in timers : TimerFire(t))
    /\ WF_vars(\E i \in 1..MaxRpc, okay \in BOOLEAN : ServeFetch(i, okay))
    /\ WF_vars(\E i \in 1..MaxRpc : FetchDone(i))

SpecAtomLive == SpecAtom /\ FairAtom

\* The main process runs what is runnable: the store answers a read that
\* was started, and the promise of a fetch that was read resolves.
FairService ==
    /\ WF_vars(\E i \in DOMAIN subs : \E f \in BagToSet(subs[i].inflight),
                  okay \in BOOLEAN : DbRead(i, f, okay))
    /\ WF_vars(\E i \in DOMAIN subs : \E f \in BagToSet(subs[i].inflight) :
                  Deliver(i, f))

SpecServiceLive == SpecService /\ FairService

(***************************************************************************)
(* Properties of the event source (createEventSubscription)                *)
(***************************************************************************)

C8_SecondUnsubscribeNoEffect ==
    [][(lastOp'.rep /\ handles' # handles)
         => /\ subscriptions' = subscriptions
            /\ ipcListeners' = ipcListeners
            /\ root' = root]_vars

\* a handle was called twice in a row while another subscriber is attached
C8_Witness ==
    /\ lastOp.rep
    /\ subscriptions # <<>>
    /\ ipcListeners # {}

\* C9: when an event is fanned out, every callback attached at that moment
\* is invoked, also when one of them throws.
C9_FanoutReachesAll == lastFanout.missed = {}

(***************************************************************************)
(* Properties of the stream atom and its debounced handler                 *)
(***************************************************************************)
Pending(c) == {t \in timers : t.owner = c}

C10_NothingLeftAfterRelease ==
    (mountCount > 0 /\ mounted = 0 /\ subscriptions = <<>>)
        => /\ timers = {}
           /\ \A i \in DOMAIN fetches : fetches[i].live
           /\ ipcListeners = {}

\* an RPC call of the stream atom came back with a failure
RefetchFailed == \E i \in DOMAIN fetches : fetches[i].phase = "served" /\ ~fetches[i].ok

\* C11: when the mounted stream atom holds a value and a push event
\* announcing a newer state has reached its handler (the debounce timer it
\* armed is pending), the atom comes to hold a state at least as new as the
\* newest state announced to it, with no further action of the reader,
\* unless the atom is unmounted or the refetch fails.
C11_PushLeadsToFreshCache ==
    (mounted # 0 /\ streamValue >= 0 /\ streamValue < deb[mounted].lastVer
        /\ deb[mounted].owed > 0)
      ~> (mounted = 0 \/ RefetchFailed \/ streamValue >= deb[mounted].lastVer)

\* a Warm atom has refetched after a push event and holds the new state
C11_Witness ==
    /\ mounted # 0
    /\ serverVer = MaxVer
    /\ deb[mounted].lastVer = serverVer
    /\ streamValue = serverVer
    /\ timers = {}
    /\ fetches = <<>>

ReturnsErr == cmd.pc = "run" /\ cmd'.pc = "idle" /\ lastCmd'.result = "err"

\* C3: a Command that returns a failure leaves #notify at the value it had
\* when the Command started, publishes no snapshot and makes no subscriber
\* of a Query fetch again.
C3_FailedCommandPublishesNothing ==
    [][ReturnsErr
         => /\ notifyTok' = cmd.pre.tok
            /\ snapshots' = cmd.pre.snaps
            /\ \A i \in DOMAIN subs :
                   BagCardinality(subs'[i].inflight)
                       <= BagCardinality(subs[i].inflight)]_vars

\* create() failed at #insertEvent while a live subscription would have
\* fetched again on a #notify.next(Date.now())
C3_Witness ==
    /\ lastCmd.result = "err"
    /\ lastCmd.kind = "create"
    /\ lastCmd.step = 2
    /\ \E i \in DOMAIN subs : subs[i].st = "live" /\ subs[i].seen # DateNow

C5_InitialThenEveryInvalidation ==
    \A i \in DOMAIN subs :
        /\ subs[i].n > 0 => subs[i].firstKind = "initial"
        /\ (subs[i].st = "live" /\ subs[i].inflight = EmptyBag
               /\ subs[i].cmdsAfter > 0)
              => subs[i].maxv >= lastCmd.okVer

\* C6: a subscription that has seen exactly one successful Command since it
\* subscribed, and has no fetch left in flight, has emitted exactly twice.
C6_TwoEmissionsForOneCommand ==
    \A i \in DOMAIN subs :
        (subs[i].st = "live" /\ subs[i].inflight = EmptyBag /\ cmd.pc = "idle"
            /\ subs[i].cmdsAfter = 1)
          => subs[i].n = 2

\* C7: a Command that returns a failure has left the table as it found it.
C7_FailedCommandLeavesStoreUntouched ==
    [][ReturnsErr => db' = cmd.pre.db]_vars

(***************************************************************************)
(* Properties of firstValueFromResult                                      *)
(***************************************************************************)

C14_ReadSettlesWithinTimeout ==
    /\ read.st = "pending" => read.elapsed <= read.timeoutMs
    /\ \A f \in finished : f.at <= f.timeoutMs


(***************************************************************************)
(* Properties of the RPC path                                              *)
(***************************************************************************)

\* C15: when the matched handler raised an exception, the caller of the
\* client gets a response with status 500, and the invoke does not reject.
C15_HandlerExceptionBecomes500 ==
    (rpc.pc = "done" /\ rpc.outcome.k = "throw")
      => (rpc.seen.kind = "response" /\ rpc.seen.status = 500)

\* the calls whose input the route's schema does not accept
InvalidCalls ==
    {c \in GetUserCalls : c.path[2] = "bad!"}
      \cup {c \in CreateUserCalls : c.body # "{displayName:'Ann'}"}

CallOf(r) == [route |-> r.call.route, method |-> r.call.method, path |-> r.call.path,
              body |-> r.call.body]

C17_ClientSeesRouterStatus ==
    (rpc.pc = "done" /\ rpc.seen.kind = "response")
      => /\ rpc.seen.status = rpc.res.status
         /\ (rpc.call.route = "getUser" /\ rpc.outcome.k = "ok")
              => IF rpc.outcome.v = "undefined"
                    THEN rpc.seen.status = 404
                    ELSE rpc.seen.status = 200 /\ rpc.seen.body.kind = "user"

\* the main-process handler has taken the arguments of the call in progress
Decoded == rpc.pc \notin {"idle", "invoked"}

SamePathMethodBody ==
    /\ rpc.received.path = rpc.call.path
    /\ rpc.received.method = rpc.call.method
    /\ rpc.received.body = rpc.call.body

\* C18 as stated: what the main-process handler decodes is the path, method
\* and body of the call and the caller's header pairs in the caller's order,
\* whichever form the headers were given in.
C18_RoundTripKeepsCallerOrder ==
    Decoded => (SamePathMethodBody /\ rpc.received.headers = rpc.call.headers.list)

\* the positions in `list` of the pairs whose lower-cased name is `name`
PositionsOf(list, name) ==
    SelectSeq([i \in DOMAIN list |-> i], LAMBDA i : Lower(list[i][1]) = name)

\* C18, amended: path, method and body arrive unchanged. An array of pairs
\* arrives as given. A plain object arrives as its pairs, in the order
\* written when no name is an index key. A Headers object arrives as one
\* pair per lower-cased name, the names in sorted order, each with the
\* values appended under that name in the order of the appends.
C18_RoundTripKeepsIteratedPairs ==
    Decoded =>
      LET given == rpc.call.headers.list
          got == rpc.received.headers
      IN /\ SamePathMethodBody
         /\ rpc.call.headers.form = "undefined" => got = <<>>
         /\ rpc.call.headers.form = "array" => got = given
         /\ rpc.call.headers.form = "object" =>
              /\ {got[i] : i \in DOMAIN got} = {given[i] : i \in DOMAIN given}
              /\ Len(got) = Len(given)
              /\ (\A i \in DOMAIN given : ~IsIndexKey(given[i][1])) => got = given
         /\ rpc.call.headers.form = "Headers" =>
              /\ {got[i][1] : i \in DOMAIN got} = {Lower(given[i][1]) : i \in DOMAIN given}
              /\ \A i, j \in DOMAIN got : i < j => Rank(got[i][1]) < Rank(got[j][1])
              /\ \A i \in DOMAIN got :
                    LET at == PositionsOf(given, got[i][1])
                    IN /\ Len(got[i][2]) = Len(at)
                       /\ \A k \in DOMAIN at : got[i][2][k] = given[at[k]][2][1]

\* a Headers object whose appends were not in sorted order and repeat a
\* name, decoded in the main process
C18_Witness ==
    /\ rpc.pc = "done"
    /\ rpc.call.headers.form = "Headers"
    /\ rpc.call.headers.list = <<<<"x-b", <<"v2">>>>, <<"x-b", <<"v1">>>>>>
    /\ rpc.received.headers = <<<<"x-b", <<"v2", "v1">>>>>>

\* C19: the body the frontend gets for a failure inside the backend (a
\* response of status 500) never carries the message of the backend's error.
C19_InternalFailureBodyIsGeneric ==
    (rpc.pc = "done" /\ rpc.seen.kind = "response" /\ rpc.res.status = 500)
      => rpc.seen.body.msg \notin InternalMessages

(***************************************************************************)
(* Properties of useOptimisticValue                                        *)
(***************************************************************************)

\* C20: the value the hook shows is the value of whichever of real and
\* optimistic carries the greater timestamp (with equal timestamps neither
\* is greater, and it is one of the two).
C20_ShowsGreaterTimestamp ==
    /\ real.ts > optimistic.ts => value = real.value
    /\ optimistic.ts > real.ts => value = optimistic.value
    /\ value \in {real.value, optimistic.value}

\* both orders have happened: an optimistic value is shown over an older
\* confirmed one while its onUpdate is in flight
C20_Witness ==
    /\ optimistic.ts > real.ts
    /\ optimistic.value # real.value
    /\ value = optimistic.value
    /\ updates[optimistic.value] > 0

\* C21: once the write behind the optimistic value has failed and no other
\* write is in flight, the hook shows the confirmed value again.
C21_FailedWriteReverts ==
    (/\ lastSettled = [v |-> optimistic.value, okay |-> FALSE]
     /\ \A v \in Values : updates[v] = 0)
      => value = realValue

(***************************************************************************)
(* Properties of the hybrid cache                                          *)
(***************************************************************************)

\* C25: the step that mounts the stream atom starts an RPC call, without
\* waiting for a quiet window, and leaves no timer pending for it, so that
\* the signals that follow are debounced into a second call of their own.
C25_MountFetchesAtOnce ==
    [][mountCount' = mountCount + 1
         => /\ Len(fetches') = Len(fetches) + 1
            /\ timers' = timers]_vars

(***************************************************************************)
(* More properties of createEventSubscription and the service              *)
(***************************************************************************)

\* the handles of cb that were never called
LiveHandles(cb) == {h \in DOMAIN handles : handles[h].cb = cb /\ handles[h].calls = 0}

C27_TokenAdvancesOnSuccess ==
    [][/\ notifyTok' >= notifyTok
       /\ (cmd.pc = "resolved" /\ cmd'.pc = "idle") => notifyTok' > notifyTok]_vars

\* C26: a Command never throws and never rejects: whatever it was called
\* with and whatever the store did, the caller gets a Result that is Ok or
\* an ApplicationError.
C26_CommandResolvesToResult ==
    invocation.pc = "returned" => invocation.outcome \in {"ok", "err"}

(***************************************************************************)
(* Properties of the hybrid cache's read, refetch and refresh              *)
(***************************************************************************)

\* C22: a read while the stream value is set returns it synchronously and
\* starts no pull; a pull is started only by a read while the stream is
\* undefined.
C22_WarmReadIsSynchronous ==
    [][/\ lastRead'.path = "stream" => lastRead'.sync /\ lastRead'.has
       /\ (single.st = "stale" /\ single'.st = "pending") => ~stream.def]_vars

\* C23: while the update handler's GET is in flight the stream value is
\* left alone and a read returns it whole; the answer, when it lands,
\* becomes the stream value in one step, exactly as it was received.
C23_RefetchReplacesAtomically ==
    [][/\ (refetch.pc # "none" /\ refetch'.pc # "none") =>
              (stream' = stream \/ stream' = Undefined)
       /\ (refetch.pc # "none" /\ stream.def /\ lastRead' # lastRead) =>
              lastRead'.has /\ lastRead'.body = stream.body /\ stream' = stream
       /\ (refetch.pc = "served" /\ refetch'.pc = "none") =>
              (stream' = stream \/ stream'.body = refetch.body)]_vars

\* a read returned the old list while the answer holding a new list was on
\* its way to the handler
C23_Witness ==
    /\ refetch.pc = "served"
    /\ stream.def
    /\ lastRead.path = "stream"
    /\ lastRead.body = stream.body
    /\ refetch.body.kind = "list"
    /\ refetch.body # stream.body

\* C24: the first read after a manual refresh is served by the pull path,
\* and returns no data fetched before the refresh.
C24_ReadAfterRefreshIsFresh ==
    [][(refreshed /\ ~refreshed') =>
          /\ lastRead'.path = "pull"
          /\ lastRead'.has => lastRead'.fresh]_vars

(***************************************************************************)
(* Properties of the write atoms                                           *)
(***************************************************************************)

\* C29: once a create, update or delete write atom has got the success
\* status of a mutation the main process carried out, and has refreshed, a
\* read that returns a list returns the list as it is after the mutation.
C29_ReadAfterWriteIsPostMutation ==
    [][(/\ writing.pc = "returned"
        /\ writing.atom \notin OptimisticAtoms
        /\ ResOk(writing.status)
        /\ lastRead' # lastRead
        /\ lastRead'.has
        /\ lastRead'.body.kind = "list") => lastRead'.body = ListBody(table)]_vars

\* C30: when the request of an optimistic write atom fails, the cache is
\* left holding what it held right before the optimistic change.
C30_FailedOptimisticWriteRollsBack ==
    [][(/\ writing.atom \in OptimisticAtoms
        /\ \/ writing.pc = "sent" /\ writing'.pc = "threw"
           \/ /\ writing.pc = "served" /\ writing'.pc \in {"returned", "threw"}
              /\ ~ResOk(writing.status))
          => stream'.def /\ stream'.body = writing.previous]_vars

\* a successful Command has published since subscription i was made, and
\* the subscription has not ended
Invalidated(i) ==
    i \in DOMAIN subs /\ subs[i].st # "errored" /\ subs[i].cmdsAfter > 0

\* C31: every attached subscriber of a Query eventually receives an
\* emission fetched after the mutation of the latest successful Command,
\* also when the Command's Date.now() token equals the one before it.
C31_NoCommandLostToCoalescing ==
    \A i \in 1..MaxSubs :
        Invalidated(i)
          ~> (i \in DOMAIN subs
                /\ (subs[i].st = "errored" \/ subs[i].maxv >= lastCmd.okVer))

\* the step on which fetch f of the live subscription i is delivered and
\* leaves no other fetch of the subscription in flight
DeliversLast(i, f) ==
    /\ subs[i].st = "live"
    /\ f.phase = "read"
    /\ subs'[i].n = subs[i].n + 1
    /\ subs'[i].inflight = EmptyBag

\* C32: of the values overlapping refetches of a Query deliver, the one
\* delivered last was read from a table at least as new as every value
\* the subscriber received before it.
C32_LastDeliveredIsLatest ==
    [][\A i \in DOMAIN subs : \A f \in BagToSet(subs[i].inflight) :
           DeliversLast(i, f) => f.ver >= subs[i].maxv]_vars

\* the step on which the response of a refetch that was answered before a
\* manual refresh reaches the handler, the pull the refresh forced having
\* been started and answered since
EarlierRefetchLands ==
    /\ refetch.pc = "served" /\ ~refetch.fresh /\ refetch.body.kind = "list"
    /\ single.st = "fulfilled" /\ single.body.kind = "list"
    /\ refetch'.pc = "none"

\* C33: the response of a refetch that was in flight when a manual refresh
\* started a later pull does not replace the pull's result: after it has
\* arrived the cache does not hold a value different from what the pull
\* returned.
C33_EarlierResponseNeverOverwrites ==
    [][EarlierRefetchLands => (stream'.def => stream'.body = single.body)]_vars

\* the step on which a Command returns Ok and publishes a token that
\* differs from the one before
PublishesNewToken ==
    cmd.pc = "resolved" /\ cmd'.pc = "idle" /\ notifyTok' # notifyTok

\* C34: a subscriber whose Query had a store read fail is still served by
\* a later successful Command: the Command's tick starts a fetch for it.
C34_FailedFetchDoesNotEndPush ==
    [][PublishesNewToken =>
          \A i \in DOMAIN subs :
              subs[i].st = "errored" => subs'[i].inflight # EmptyBag]_vars

\* the value an optimistic write atom put in the cache before it sent its
\* request
OptimisticValue(w) ==
    IF w.atom = "optimisticDeleteUserAtom"
       THEN ListBody(FilterOut(w.previous.users, w.id))
       ELSE ListBody(MapUpdate(w.previous.users, w.id, w.name))

\* the step on which an optimistic write atom finishes while the cache
\* holds, in place of the optimistic value, the table as a refetch stored
\* it during the request
FinishesOverRefetched ==
    /\ writing.atom \in OptimisticAtoms
    /\ writing.pc \in {"sent", "served"}
    /\ writing'.pc \in {"returned", "threw"}
    /\ stream.def
    /\ stream.body = ListBody(table)
    /\ stream.body # OptimisticValue(writing)

\* C35: when a refetch has stored the table's current rows in the cache
\* while an optimistic write atom's request was in flight, the atom's
\* rollback or confirmation leaves the cache holding the current rows.
C35_WriteKeepsNewerConfirmedValue ==
    [][FinishesOverRefetched => stream'.body = ListBody(table')]_vars

\* C36: a subscription whose own unsubscribe handle was never called is
\* still attached, and the IPC listener is still registered for it,
\* whatever other handles were called.
C36_HandleDetachesOnlyItsOwn ==
    \A h \in DOMAIN handles :
        handles[h].calls = 0
          => handles[h].cb \in Range(subscriptions) /\ ipcListeners # {}

\* C37: while the stream atom is unmounted nothing sets its value: a
\* refetch that was waiting for its timer or for its answer when the atom
\* was unmounted does not store what it fetched.
C37_NoSetAfterUnmount ==
    [][(mounted = 0 /\ mounted' = 0) => streamValue' = streamValue]_vars

(***************************************************************************)
(* Properties of the route handlers' reads                                 *)
(***************************************************************************)

\* C38: when a route handler's firstValueFromResult call has settled, by a
\* value, an error or the timeout, its chain is subscribed to nothing and
\* no observer of #notify is left behind, however many calls were served.
C38_ReadReleasesBusSubscription ==
    read.st = "idle" => chain = "none" /\ observers = 0

\* every call the model follows has settled, one by a value and one by
\* the timeout
C38_Witness ==
    /\ read.st = "idle" /\ read.n = MaxReads
    /\ \E a, b \in finished : a.cause = "value" /\ b.cause = "timeout"

====
